---- MODULE Spec2Model ----
(***************************************************************************)
(* Model of external_scripts/message_handling.py: LoggerGenerator (builds  *)
(* a named logger bound to a file handler) and MessageHandlingObject (the  *)
(* _print / _warn / _raise dispatch operations, the shared-logger policy   *)
(* of _init_logger and the optional lock of _locked_log_process), over a   *)
(* model of the parts of Python's logging module the code calls; and of    *)
(* the subtitle-label extraction scripts Scripts/Edit and Scripts/Utility  *)
(* extract_subtitle_labels.py over the timeline their host hands them.     *)
(***************************************************************************)
EXTENDS Integers, Sequences, FiniteSets, TLC

(***************************************************************************)
(* Bounds of the model.                                                    *)
(***************************************************************************)
\* FileHandler instances created in one run (every one stays allocated).
MaxHandlers == 2
\* Items on the subtitle track of a timeline.
MaxItems == 2

(***************************************************************************)
(* Python values.                                                          *)
(***************************************************************************)
\* None, where a str (log_filepath, logger_name, logger_format) or a logger
\* reference is expected.
None == "<None>"
\* None, where a level string is expected.  Level strings are tuples of
\* characters, because the code lower-cases them.
NoneLevel == <<"<None>">>

\* bool(s) of an Optional[str]: None and "" are falsy.
Truthy(s) == s # None /\ s # ""
\* bool(s) of an Optional level string.
TruthyLevel(s) == s # NoneLevel /\ Len(s) > 0

\* str.lower() of one character.
LowerChar(c) ==
    CASE c = "A" -> "a" [] c = "B" -> "b" [] c = "C" -> "c" [] c = "D" -> "d"
      [] c = "E" -> "e" [] c = "F" -> "f" [] c = "G" -> "g" [] c = "I" -> "i"
      [] c = "L" -> "l" [] c = "N" -> "n" [] c = "O" -> "o" [] c = "R" -> "r"
      [] c = "S" -> "s" [] c = "T" -> "t" [] c = "U" -> "u" [] c = "V" -> "v"
      [] c = "W" -> "w"
      [] OTHER -> c
\* str.lower().
Lower(s) == [i \in 1..Len(s) |-> LowerChar(s[i])]

(***************************************************************************)
(* The severities of the logging module.                                   *)
(***************************************************************************)
NOTSET == 0
DEBUG == 10
INFO == 20
WARNING == 30
ERROR == 40
CRITICAL == 50
\* _parse_logger_level raises ValueError instead of returning a level.
InvalidLevel == -1

s_debug == <<"d", "e", "b", "u", "g">>
s_info == <<"i", "n", "f", "o">>
s_warning == <<"w", "a", "r", "n", "i", "n", "g">>
s_error == <<"e", "r", "r", "o", "r">>
s_critical == <<"c", "r", "i", "t", "i", "c", "a", "l">>
s_fatal == <<"f", "a", "t", "a", "l">>

\* LoggerGenerator._parse_logger_level without the lower-casing: a plausible
\* slip, used to test the claims about the mapping.
ParseLoggerLevelCaseSensitive(level_str) ==
    IF ~TruthyLevel(level_str) THEN INFO
    ELSE IF level_str = s_debug THEN DEBUG
    ELSE IF level_str = s_info THEN INFO
    ELSE IF level_str = s_warning THEN WARNING
    ELSE IF level_str = s_error THEN ERROR
    ELSE IF level_str = s_critical \/ level_str = s_fatal THEN CRITICAL
    ELSE InvalidLevel

\* LoggerGenerator._parse_logger_level falling back to INFO for a word it
\* does not know: a plausible slip, used to test the claims.
ParseLoggerLevelFallsBack(level_str) ==
    IF ~TruthyLevel(level_str) THEN INFO
    ELSE LET l == Lower(level_str) IN
         IF l = s_debug THEN DEBUG
         ELSE IF l = s_warning THEN WARNING
         ELSE IF l = s_error THEN ERROR
         ELSE IF l = s_critical \/ l = s_fatal THEN CRITICAL
         ELSE INFO

\* LoggerGenerator._parse_logger_level.
ParseLoggerLevel(level_str) ==
    IF ~TruthyLevel(level_str) THEN INFO
    ELSE LET l == Lower(level_str) IN
         IF l = s_debug THEN DEBUG
         ELSE IF l = s_info THEN INFO
         ELSE IF l = s_warning THEN WARNING
         ELSE IF l = s_error THEN ERROR
         ELSE IF l = s_critical \/ l = s_fatal THEN CRITICAL
         ELSE InvalidLevel

(***************************************************************************)
(* The universe of the model.                                              *)
(***************************************************************************)
\* LoggerGenerator._create_logger: the name given to a logger without one.
DefaultLoggerName == "messagehandler"
\* LoggerGenerator.default_format.
DefaultFormat == "%(asctime)s:%(levelname)s:%(name)s:%(message)s"
\* The names under which loggers are registered.
LoggerNames == {DefaultLoggerName, "testing"}
\* The two MessageHandlingObjects of main().
Objs == {"first", "handler"}
\* The threads that call the dispatch operations.
Threads == {"t1", "t2"}
\* A path logging.FileHandler cannot open: "" resolves to the working
\* directory.
Openable(path) == path # ""

VARIABLES
    loggers,    \* logging's registry: name -> [exists, level, handlers]
    handlers,   \* every FileHandler created: id -> [level, file, fmt]
    gen,        \* a LoggerGenerator held by a caller, or NoGen
    lastGen,    \* the generate call that has just ended, or NoCall
    obj,        \* the MessageHandlingObjects: name -> its attributes
    lastCfg,    \* the constructor / set_logger call that has just ended
    th,         \* the threads: their position in a dispatch call and locals
    run         \* a run of an extraction script: its timeline, position, file

vars == <<loggers, handlers, gen, lastGen, obj, lastCfg, th, run>>

NoGen == [logger |-> None, handler |-> 0]
NoCall == [op |-> "none"]

(***************************************************************************)
(* logging: the registry, handlers and the emission of a record.           *)
(***************************************************************************)
\* A name not yet in the registry.
Absent == [exists |-> FALSE, level |-> NOTSET, handlers |-> << >>]

\* logging.getLogger(name): the registered logger, created on first use.
GetLogger(lg, name) ==
    IF lg[name].exists THEN lg
    ELSE [lg EXCEPT ![name] = [exists |-> TRUE, level |-> NOTSET, handlers |-> << >>]]

\* Logger.getEffectiveLevel: a logger without a level inherits the root
\* logger's, WARNING.
EffectiveLevel(l) == IF l.level = NOTSET THEN WARNING ELSE l.level

\* Handler ids of a sequence.
Range(s) == {s[i] : i \in 1..Len(s)}

\* Logger.addHandler: a handler instance is attached once.
AddHandler(l, h) ==
    IF h \in Range(l.handlers) THEN l ELSE [l EXCEPT !.handlers = Append(@, h)]

\* Logger.isEnabledFor / Logger.callHandlers: a record passes a threshold
\* it reaches.
Passes(levelno, threshold) == levelno >= threshold

\* Logger.info / warning / exception: the lines a record of severity levelno
\* appends, one per attached handler that lets it through, in handler order.
RECURSIVE EmitTo(_, _, _, _, _)
EmitTo(hs, ids, name, levelno, msg) ==
    IF ids = << >> THEN << >>
    ELSE LET h == hs[Head(ids)]
             rest == EmitTo(hs, Tail(ids), name, levelno, msg)
         IN  IF Passes(levelno, h.level)
             THEN <<[file |-> h.file, level |-> levelno, name |-> name,
                     msg |-> msg]>> \o rest
             ELSE rest

Emit(lg, hs, name, levelno, msg) ==
    IF Passes(levelno, EffectiveLevel(lg[name]))
    THEN EmitTo(hs, lg[name].handlers, name, levelno, msg)
    ELSE << >>

(***************************************************************************)
(* LoggerGenerator.                                                        *)
(***************************************************************************)
\* LoggerGenerator.__init__: resolves the logger, then opens the file
\* handler. result is "ok" or "OSError"; the logger stays registered when
\* the file cannot be opened.
NewLoggerGenerator(lg, hs, log_filepath, logger_name) ==
    LET name == IF Truthy(logger_name) THEN logger_name ELSE DefaultLoggerName
        lg1 == GetLogger(lg, name)
    IN  IF Openable(log_filepath)
        THEN [result |-> "ok", loggers |-> lg1,
              handlers |-> Append(hs, [level |-> NOTSET, file |-> log_filepath,
                                       fmt |-> None]),
              gen |-> [logger |-> name, handler |-> Len(hs) + 1]]
        ELSE [result |-> "OSError", loggers |-> lg1, handlers |-> hs,
              gen |-> NoGen]

\* LoggerGenerator.generate that attaches the handler before it validates
\* the level: a plausible slip, used to test the claims.
GenerateAttachFirst(lg, hs, g, logger_level, logger_format) ==
    LET level == ParseLoggerLevel(logger_level)
        lg1 == [lg EXCEPT ![g.logger] = AddHandler(@, g.handler)]
    IN  IF level = InvalidLevel
        THEN [result |-> "ValueError", loggers |-> lg1, handlers |-> hs,
              logger |-> None]
        ELSE [result |-> "ok",
              loggers |-> [lg1 EXCEPT ![g.logger].level = level],
              handlers |-> [hs EXCEPT ![g.handler].level = level,
                                      ![g.handler].fmt =
                                          IF Truthy(logger_format)
                                          THEN logger_format ELSE DefaultFormat],
              logger |-> g.logger]

\* LoggerGenerator.generate: _set_logger_level (which parses first and may
\* raise), _apply_formatting, addHandler. result is "ok" or "ValueError".
Generate(lg, hs, g, logger_level, logger_format) ==
    LET level == ParseLoggerLevel(logger_level)
    IN  IF level = InvalidLevel
        THEN [result |-> "ValueError", loggers |-> lg, handlers |-> hs,
              logger |-> None]
        ELSE [result |-> "ok",
              loggers |-> [lg EXCEPT ![g.logger] =
                               AddHandler([@ EXCEPT !.level = level], g.handler)],
              handlers |-> [hs EXCEPT ![g.handler].level = level,
                                      ![g.handler].fmt =
                                          IF Truthy(logger_format)
                                          THEN logger_format ELSE DefaultFormat],
              logger |-> g.logger]

(***************************************************************************)
(* MessageHandlingObject: construction and set_logger.                     *)
(***************************************************************************)
\* The lock is free, or held since the named thread acquired it.
Free == "free"

Unconstructed ==
    [constructed |-> FALSE, verbose |-> FALSE, suppress_warnings |-> FALSE,
     logger |-> None, use_threaded_log_locks |-> FALSE, log_lock |-> Free]

\* The arguments of _init_logger.
Args(path, name, level, format, shared) ==
    [log_filepath |-> path, logger_name |-> name, logger_level |-> level,
     logger_format |-> format, shared_logger |-> shared]

\* The conflict test looking at log_filepath alone: a plausible slip, used
\* to test the claims.
AnyGivenPathOnly(a) == Truthy(a.log_filepath)

\* any([log_filepath, logger_name, logger_level, logger_format])
AnyGiven(a) ==
    \/ Truthy(a.log_filepath)
    \/ Truthy(a.logger_name)
    \/ TruthyLevel(a.logger_level)
    \/ Truthy(a.logger_format)

\* MessageHandlingObject._init_logger that falls off its end when a shared
\* logger is given: a plausible slip, used to test the claims.
InitLoggerDropsShared(lg, hs, a) ==
    IF a.shared_logger # None /\ AnyGiven(a)
    THEN [result |-> "ValueError:conflict", loggers |-> lg, handlers |-> hs,
          logger |-> None]
    ELSE IF a.shared_logger = None /\ a.log_filepath # None
    THEN LET g == NewLoggerGenerator(lg, hs, a.log_filepath, a.logger_name)
             r == Generate(g.loggers, g.handlers, g.gen, a.logger_level,
                           a.logger_format)
         IN  IF g.result # "ok"
             THEN [result |-> "OSError", loggers |-> g.loggers,
                   handlers |-> g.handlers, logger |-> None]
             ELSE IF r.result # "ok"
             THEN [result |-> "ValueError:level", loggers |-> r.loggers,
                   handlers |-> hs, logger |-> None]
             ELSE r
    ELSE [result |-> "ok", loggers |-> lg, handlers |-> hs, logger |-> None]

\* MessageHandlingObject._init_logger that calls generate(logger_level)
\* without the format: a plausible slip, used to test the claims.
InitLoggerIgnoresFormat(lg, hs, a) ==
    IF a.shared_logger # None /\ AnyGiven(a)
    THEN [result |-> "ValueError:conflict", loggers |-> lg, handlers |-> hs,
          logger |-> None]
    ELSE IF a.shared_logger = None
    THEN IF a.log_filepath = None
         THEN [result |-> "ok", loggers |-> lg, handlers |-> hs, logger |-> None]
         ELSE LET g == NewLoggerGenerator(lg, hs, a.log_filepath, a.logger_name)
                  r == Generate(g.loggers, g.handlers, g.gen, a.logger_level,
                                None)
              IN  IF g.result # "ok"
                  THEN [result |-> "OSError", loggers |-> g.loggers,
                        handlers |-> g.handlers, logger |-> None]
                  ELSE IF r.result # "ok"
                  THEN [result |-> "ValueError:level", loggers |-> r.loggers,
                        handlers |-> hs, logger |-> None]
                  ELSE r
    ELSE [result |-> "ok", loggers |-> lg, handlers |-> hs,
          logger |-> a.shared_logger]

\* MessageHandlingObject._init_logger. result is "ok", "ValueError:conflict"
\* (line 157), "ValueError:level" (raised by generate) or "OSError" (raised
\* by logging.FileHandler); logger is the value returned when result is "ok".
InitLogger(lg, hs, a) ==
    IF a.shared_logger # None /\ AnyGiven(a)
    THEN [result |-> "ValueError:conflict", loggers |-> lg, handlers |-> hs,
          logger |-> None]
    ELSE IF a.shared_logger = None
    THEN IF a.log_filepath = None
         THEN [result |-> "ok", loggers |-> lg, handlers |-> hs, logger |-> None]
         ELSE LET g == NewLoggerGenerator(lg, hs, a.log_filepath, a.logger_name)
                  r == Generate(g.loggers, g.handlers, g.gen, a.logger_level,
                                a.logger_format)
              IN  IF g.result # "ok"
                  THEN [result |-> "OSError", loggers |-> g.loggers,
                        handlers |-> g.handlers, logger |-> None]
                  ELSE IF r.result # "ok"
                  THEN [result |-> "ValueError:level", loggers |-> r.loggers,
                        handlers |-> hs, logger |-> None]
                  ELSE r
    ELSE [result |-> "ok", loggers |-> lg, handlers |-> hs,
          logger |-> a.shared_logger]

\* No call is waiting to be observed by its caller.
Quiet == lastCfg = NoCall /\ lastGen = NoCall

\* MessageHandlingObject.__init__(verbose, suppress_warnings, **a).
Construct(o, verbose, suppress_warnings, a) ==
    LET r == InitLogger(loggers, handlers, a) IN
    /\ Quiet
    /\ ~obj[o].constructed
    /\ Len(r.handlers) <= MaxHandlers
    /\ loggers' = r.loggers
    /\ handlers' = r.handlers
    /\ obj' = IF r.result = "ok"
              THEN [obj EXCEPT ![o] =
                        [constructed |-> TRUE, verbose |-> verbose,
                         suppress_warnings |-> suppress_warnings,
                         logger |-> r.logger,
                         use_threaded_log_locks |-> FALSE, log_lock |-> Free]]
              ELSE obj
    /\ lastCfg' = [op |-> "init", obj |-> o, args |-> a, result |-> r.result,
                   before |-> None]
    /\ UNCHANGED <<run, gen, lastGen, th>>

\* set_logger that drops the current logger before it resolves the new one,
\* so that a failure leaves the object without a logger: a plausible slip,
\* used to test the claims.
SetLoggerClearsFirst(o, a) ==
    LET r == InitLogger(loggers, handlers, a) IN
    /\ Quiet
    /\ obj[o].constructed
    /\ Len(r.handlers) <= MaxHandlers
    /\ loggers' = r.loggers
    /\ handlers' = r.handlers
    /\ obj' = [obj EXCEPT ![o].logger = IF r.result = "ok" THEN r.logger
                                        ELSE None]
    /\ lastCfg' = [op |-> "set_logger", obj |-> o, args |-> a,
                   result |-> r.result, before |-> obj[o].logger]
    /\ UNCHANGED <<run, gen, lastGen, th>>

\* MessageHandlingObject.set_logger(**a).
SetLogger(o, a) ==
    LET r == InitLogger(loggers, handlers, a) IN
    /\ Quiet
    /\ obj[o].constructed
    /\ Len(r.handlers) <= MaxHandlers
    /\ loggers' = r.loggers
    /\ handlers' = r.handlers
    /\ obj' = IF r.result = "ok" THEN [obj EXCEPT ![o].logger = r.logger] ELSE obj
    /\ lastCfg' = [op |-> "set_logger", obj |-> o, args |-> a,
                   result |-> r.result, before |-> obj[o].logger]
    /\ UNCHANGED <<run, gen, lastGen, th>>

\* The caller of the constructor or of set_logger has its result.
CfgReturn ==
    /\ lastCfg # NoCall
    /\ lastCfg' = NoCall
    /\ UNCHANGED <<run, loggers, handlers, gen, lastGen, obj, th>>

\* The owner of the object sets _use_threaded_log_locks.
ToggleFlag(o) ==
    /\ Quiet
    /\ obj[o].constructed
    /\ obj' = [obj EXCEPT ![o].use_threaded_log_locks = ~@]
    /\ UNCHANGED <<run, loggers, handlers, gen, lastGen, lastCfg, th>>

(***************************************************************************)
(* The dispatch operations _print, _warn and _raise, each wrapped by       *)
(* _locked_log_process.  A call is a walk of its thread through            *)
(*   idle -> [acquire] -> body -> [log] -> [release] -> returned | raised  *)
(* and the thread's record keeps what the call has done so far.            *)
(***************************************************************************)
Idle ==
    [pc |-> "idle", op |-> "none", obj |-> None, arg |-> None,
     locked |-> FALSE, used |-> None, threshold |-> NOTSET, wrote |-> << >>,
     console |-> FALSE, warned |-> FALSE, outcome |-> None]

\* What a caller passes: a string to _print and _warn, an error to _raise.
CallArgs(op) ==
    CASE op = "print" -> {"Info text"}
      [] op = "warn" -> {"Warning text"}
      [] op = "raise" -> {"ValueError('An error')", "KeyError('k')"}

\* _raise logging with Logger.warning: a plausible slip, used to test the
\* claims.
SeverityRaiseWarns(op) ==
    CASE op = "print" -> INFO
      [] op = "warn" -> WARNING
      [] op = "raise" -> WARNING

\* The severity each operation logs at: Logger.info, Logger.warning and
\* Logger.exception.
Severity(op) ==
    CASE op = "print" -> INFO
      [] op = "warn" -> WARNING
      [] op = "raise" -> ERROR

\* Where a call goes once its body is over: _raise raises its error (the
\* wrapper's release is skipped), the others go back into the wrapper.
AfterBody(c) ==
    IF c.op = "raise"
    THEN [c EXCEPT !.pc = "raised", !.outcome = c.arg]
    ELSE [c EXCEPT !.pc = IF c.locked THEN "release" ELSE "returned"]

\* wrapper, line 137: the call reads the flag once.
Enter(t, op, o, arg) ==
    /\ Quiet
    /\ th[t].pc = "idle"
    /\ obj[o].constructed
    /\ th' = [th EXCEPT ![t] =
                  [Idle EXCEPT !.pc = IF obj[o].use_threaded_log_locks
                                      THEN "acquire" ELSE "body",
                               !.op = op, !.obj = o, !.arg = arg,
                               !.locked = obj[o].use_threaded_log_locks]]
    /\ UNCHANGED <<run, loggers, handlers, gen, lastGen, obj, lastCfg>>

\* wrapper, line 139, entered without waiting for the lock: a plausible
\* slip, used to test the claims.
AcquireNoWait(t) ==
    /\ Quiet
    /\ th[t].pc = "acquire"
    /\ obj' = [obj EXCEPT ![th[t].obj].log_lock = t]
    /\ th' = [th EXCEPT ![t].pc = "body"]
    /\ UNCHANGED <<run, loggers, handlers, gen, lastGen, lastCfg>>

\* wrapper, line 139: Lock.acquire() blocks while the lock is held.
Acquire(t) ==
    /\ Quiet
    /\ th[t].pc = "acquire"
    /\ obj[th[t].obj].log_lock = Free
    /\ obj' = [obj EXCEPT ![th[t].obj].log_lock = t]
    /\ th' = [th EXCEPT ![t].pc = "body"]
    /\ UNCHANGED <<run, loggers, handlers, gen, lastGen, lastCfg>>

\* _print with its log call nested under "if self._verbose": a plausible
\* slip, used to test the claims.
BodyLogsOnlyIfVerbose(t) ==
    LET c == th[t]
        o == obj[c.obj]
        c1 == [c EXCEPT !.console = (c.op = "print" /\ o.verbose),
                        !.warned = (c.op = "warn" /\ ~o.suppress_warnings)]
    IN  /\ Quiet
        /\ c.pc = "body"
        /\ th' = [th EXCEPT ![t] =
                      IF o.logger # None /\ ~(c.op = "print" /\ ~o.verbose)
                      THEN [c1 EXCEPT !.pc = "log"]
                      ELSE AfterBody(c1)]
        /\ UNCHANGED <<run, loggers, handlers, gen, lastGen, obj, lastCfg>>

\* _warn returning early when warnings are suppressed, so that the log line
\* is suppressed with the warning: a plausible slip, used to test the claims.
BodySuppressSkipsLog(t) ==
    LET c == th[t]
        o == obj[c.obj]
        c1 == [c EXCEPT !.console = (c.op = "print" /\ o.verbose),
                        !.warned = (c.op = "warn" /\ ~o.suppress_warnings)]
    IN  /\ Quiet
        /\ c.pc = "body"
        /\ th' = [th EXCEPT ![t] =
                      IF o.logger # None /\ ~(c.op = "warn" /\ o.suppress_warnings)
                      THEN [c1 EXCEPT !.pc = "log"]
                      ELSE AfterBody(c1)]
        /\ UNCHANGED <<run, loggers, handlers, gen, lastGen, obj, lastCfg>>

\* The first half of a body: the console line of _print (line 169), the
\* process warning of _warn (line 176), and the test "self._logger is not
\* None" of all three.
Body(t) ==
    LET c == th[t]
        o == obj[c.obj]
        c1 == [c EXCEPT !.console = (c.op = "print" /\ o.verbose),
                        !.warned = (c.op = "warn" /\ ~o.suppress_warnings)]
    IN  /\ Quiet
        /\ c.pc = "body"
        /\ th' = [th EXCEPT ![t] = IF o.logger # None
                                   THEN [c1 EXCEPT !.pc = "log"]
                                   ELSE AfterBody(c1)]
        /\ UNCHANGED <<run, loggers, handlers, gen, lastGen, obj, lastCfg>>

\* The second half of a body: self._logger is read again and the record is
\* handed to it (lines 172, 179, 184). A reference that set_logger has made
\* None meanwhile has no such method: AttributeError.
Log(t) ==
    LET c == th[t]
        l == obj[c.obj].logger
    IN  /\ Quiet
        /\ c.pc = "log"
        /\ th' = [th EXCEPT ![t] =
                      IF l = None
                      THEN [c EXCEPT !.pc = "raised", !.outcome = "AttributeError"]
                      ELSE AfterBody(
                               [c EXCEPT !.used = l,
                                         !.threshold = EffectiveLevel(loggers[l]),
                                         !.wrote = Emit(loggers, handlers, l,
                                                        Severity(c.op), c.arg)])]
        /\ UNCHANGED <<run, loggers, handlers, gen, lastGen, obj, lastCfg>>

\* wrapper, lines 141-142, testing self._use_threaded_log_locks again
\* instead of its local: a plausible slip, used to test the claims.
ReleaseRereadsFlag(t) ==
    /\ Quiet
    /\ th[t].pc = "release"
    /\ obj' = IF obj[th[t].obj].use_threaded_log_locks
              THEN [obj EXCEPT ![th[t].obj].log_lock = Free]
              ELSE obj
    /\ th' = [th EXCEPT ![t].pc = "returned"]
    /\ UNCHANGED <<run, loggers, handlers, gen, lastGen, lastCfg>>

\* wrapper, lines 141-143: reached only when func returned.
Release(t) ==
    /\ Quiet
    /\ th[t].pc = "release"
    /\ obj' = [obj EXCEPT ![th[t].obj].log_lock = Free]
    /\ th' = [th EXCEPT ![t].pc = "returned"]
    /\ UNCHANGED <<run, loggers, handlers, gen, lastGen, lastCfg>>

\* The caller has the result of its call and is free to call again.
Finish(t) ==
    /\ Quiet
    /\ th[t].pc \in {"returned", "raised"}
    /\ th' = [th EXCEPT ![t] = Idle]
    /\ UNCHANGED <<run, loggers, handlers, gen, lastGen, obj, lastCfg>>

\* One step of a call under way.
Step(t) == Acquire(t) \/ Body(t) \/ Log(t) \/ Release(t)

(***************************************************************************)
(* A LoggerGenerator used on its own.                                      *)
(***************************************************************************)
\* LoggerGenerator(log_filepath, logger_name), kept by the caller.
GenNew(log_filepath, logger_name) ==
    LET r == NewLoggerGenerator(loggers, handlers, log_filepath, logger_name) IN
    /\ Quiet
    /\ Len(r.handlers) <= MaxHandlers
    /\ loggers' = r.loggers
    /\ handlers' = r.handlers
    /\ gen' = IF r.result = "ok" THEN r.gen ELSE gen
    /\ UNCHANGED <<run, lastGen, obj, lastCfg, th>>

\* generate(logger_level, logger_format) on the generator the caller holds.
GenGenerate(logger_level, logger_format) ==
    LET r == Generate(loggers, handlers, gen, logger_level, logger_format) IN
    /\ Quiet
    /\ gen # NoGen
    /\ loggers' = r.loggers
    /\ handlers' = r.handlers
    /\ lastGen' = [op |-> "generate", level |-> logger_level,
                   format |-> logger_format, result |-> r.result,
                   logger |-> loggers[gen.logger],
                   handler |-> handlers[gen.handler]]
    /\ UNCHANGED <<run, gen, obj, lastCfg, th>>

\* The caller of generate has its result.
GenReturn ==
    /\ lastGen # NoCall
    /\ lastGen' = NoCall
    /\ UNCHANGED <<run, loggers, handlers, gen, obj, lastCfg, th>>

(***************************************************************************)
(* The subtitle-label extraction scripts. A run is a walk                  *)
(*   setup -> header -> rows -> done, or setup -> failed                   *)
(* over a timeline of the host: the names of the items of video track 1,   *)
(* the items of the subtitle track (name, start and end frame), the start  *)
(* frame and the resolution. csv is the file as written so far.            *)
(***************************************************************************)
Scripts == {"Edit", "Utility"}

\* No script runs.
NoRun == [pc |-> "none"]

\* A script about to run on a timeline, with dirpath as its user set it.
StartRun(script, dirpath, video, subtitles, start_frame, resolution) ==
    [pc |-> "setup", script |-> script, dirpath |-> dirpath, video |-> video,
     subtitles |-> subtitles, start_frame |-> start_frame,
     resolution |-> resolution, error |-> None, clipname |-> None, offset |-> 0,
     aspect |-> None, i |-> 0, csv |-> << >>]

\* os.makedirs(dirpath, exist_ok=True) finds no directory to make under the
\* empty path.
CanMakeDirs(dirpath) == dirpath # ""

\* int(width) / int(height), kept as the pair it is the quotient of.
Aspect(resolution) == <<resolution.width, resolution.height>>

\* The column names in order.
Header(script) ==
    IF script = "Utility"
    THEN <<"file", "label", "start", "end", "duration", "aspect_ratio">>
    ELSE <<"file", "label", "start", "end", "duration">>

\* The row of one subtitle item that leaves start and end as absolute
\* frames: a plausible slip, used to test the claims.
RowAbsoluteFrames(r, subtitle) ==
    LET name == subtitle.name
        start == subtitle.start
        end == subtitle.end
        duration == end - start
    IN  IF r.script = "Utility"
        THEN <<r.clipname, name, start, end, duration, r.aspect>>
        ELSE <<r.clipname, name, start, end, duration>>

\* The row of one subtitle item: the body of the loop.
Row(r, subtitle) ==
    LET name == subtitle.name
        start == subtitle.start - r.offset
        end == subtitle.end - r.offset
        duration == end - start
    IN  IF r.script = "Utility"
        THEN <<r.clipname, name, start, end, duration, r.aspect>>
        ELSE <<r.clipname, name, start, end, duration>>

\* Up to the with statement: the directory (Utility), the name of the first
\* item of video track 1, the start frame, the aspect ratio (Utility).
ScriptSetup ==
    /\ run.pc = "setup"
    /\ run' = IF run.script = "Utility" /\ ~CanMakeDirs(run.dirpath)
              THEN [run EXCEPT !.pc = "failed", !.error = "FileNotFoundError"]
              ELSE IF run.video = << >>
              THEN [run EXCEPT !.pc = "failed", !.error = "IndexError"]
              ELSE [run EXCEPT !.pc = "header",
                               !.clipname = run.video[1],
                               !.offset = run.start_frame,
                               !.aspect = IF run.script = "Utility"
                                          THEN Aspect(run.resolution)
                                          ELSE None]
    /\ UNCHANGED <<loggers, handlers, gen, lastGen, obj, lastCfg, th>>

\* open(filepath, "w") and the header row.
ScriptHeader ==
    /\ run.pc = "header"
    /\ run' = [run EXCEPT !.pc = "rows", !.i = 1,
                          !.csv = <<Header(run.script)>>]
    /\ UNCHANGED <<loggers, handlers, gen, lastGen, obj, lastCfg, th>>

\* One turn of the loop over the items of the subtitle track.
ScriptRow ==
    /\ run.pc = "rows"
    /\ run.i <= Len(run.subtitles)
    /\ run' = [run EXCEPT !.i = @ + 1,
                          !.csv = Append(@, Row(run, run.subtitles[run.i]))]
    /\ UNCHANGED <<loggers, handlers, gen, lastGen, obj, lastCfg, th>>

\* The loop is over and the file is closed.
ScriptClose ==
    /\ run.pc = "rows"
    /\ run.i > Len(run.subtitles)
    /\ run' = [run EXCEPT !.pc = "done"]
    /\ UNCHANGED <<loggers, handlers, gen, lastGen, obj, lastCfg, th>>

(***************************************************************************)
(* The inputs.                                                             *)
(***************************************************************************)
\* Level strings given to generate: every recognised word in several
\* spellings, the absent and the empty one, and unrecognised ones.
LevelStrings ==
    {NoneLevel, << >>,
     s_debug, <<"D", "E", "B", "U", "G">>,
     s_info, <<"I", "n", "f", "o">>,
     s_warning, <<"W", "A", "R", "N", "I", "N", "G">>,
     s_error, <<"E", "r", "r", "o", "r">>,
     s_critical, <<"C", "r", "i", "t", "i", "c", "a", "l">>,
     s_fatal, <<"F", "A", "T", "A", "L">>,
     <<"v", "e", "r", "b", "o", "s", "e">>, <<"w", "a", "r", "n">>,
     <<"I", "N", "F", "O", "S">>}

\* Arguments given to the constructor and to set_logger: each one absent,
\* empty or set (the level to a recognised and to an unrecognised word).
LevelArgs ==
    {NoneLevel, << >>, <<"F", "A", "T", "A", "L">>,
     <<"v", "e", "r", "b", "o", "s", "e">>}
PathArgs == {None, "", "test.log"}
NameArgs == {None, "", "testing"}
FormatArgs == {None, "", "%(message)s"}
\* A logger reference comes from an object that holds it, as in main().
SharedArgs == {None} \cup {obj[o].logger : o \in Objs}

\* Every combination of the arguments.
CfgArgs ==
    {Args(p, n, l, f, s) : p \in PathArgs, n \in NameArgs, l \in LevelArgs,
                           f \in FormatArgs, s \in SharedArgs}

\* The calls of a program like main(): a logger "testing" on test.log at the
\* default level or at "FATAL", a logger of the default name on other.log,
\* logging disabled, a level that is no level, a shared logger.
NoArgs == Args(None, None, NoneLevel, None, None)
MainArgs ==
    {Args("test.log", "testing", NoneLevel, None, None),
     Args("test.log", "testing", <<"F", "A", "T", "A", "L">>, None, None),
     Args("other.log", None, <<"E", "r", "r", "o", "r">>, None, None),
     Args("test.log", "testing", <<"v", "e", "r", "b", "o", "s", "e">>, None, None),
     NoArgs}
    \cup {[NoArgs EXCEPT !.shared_logger = s] : s \in SharedArgs}

\* The calls made while two threads dispatch on one object.
ThreadArgs ==
    {Args("test.log", "testing", NoneLevel, None, None),
     Args("test.log", "testing", <<"F", "A", "T", "A", "L">>, None, None),
     NoArgs}

\* The calls made on an object that is reconfigured between dispatch calls:
\* the three ways to resolve a logger and the three ways to fail.
SetArgs ==
    {Args("test.log", "testing", NoneLevel, None, None),
     Args("other.log", "", <<"E", "r", "r", "o", "r">>, "%(message)s", None),
     Args("test.log", "testing", <<"v", "e", "r", "b", "o", "s", "e">>, None, None),
     Args("", None, NoneLevel, None, None),
     NoArgs}
    \cup {[NoArgs EXCEPT !.shared_logger = s] : s \in SharedArgs}
    \cup {[NoArgs EXCEPT !.shared_logger = s, !.log_filepath = "test.log"] :
              s \in SharedArgs \ {None}}

Ops == {"print", "warn", "raise"}

(***************************************************************************)
(* The specifications.                                                     *)
(***************************************************************************)
Init ==
    /\ loggers = [n \in LoggerNames |-> Absent]
    /\ handlers = << >>
    /\ gen = NoGen
    /\ lastGen = NoCall
    /\ obj = [o \in Objs |-> Unconstructed]
    /\ lastCfg = NoCall
    /\ th = [t \in Threads |-> Idle]
    /\ run = NoRun

\* A program like main(): two objects, configured and reconfigured, and one
\* thread that dispatches on them; the objects' owner never enables the lock.
Next ==
    \/ Quiet /\ \E o \in Objs, v \in BOOLEAN, w \in BOOLEAN, a \in MainArgs :
           Construct(o, v, w, a)
    \/ Quiet /\ \E o \in Objs, a \in MainArgs : SetLogger(o, a)
    \/ CfgReturn
    \/ \E op \in Ops, o \in Objs : \E arg \in CallArgs(op) :
           Enter("t1", op, o, arg)
    \/ Body("t1")
    \/ Log("t1")
    \/ Finish("t1")

Spec == Init /\ [][Next]_vars

\* Two threads that dispatch on one object whose owner switches the lock on
\* and off and replaces the logger.
NextThreads ==
    \/ \E a \in ThreadArgs : Construct("handler", TRUE, FALSE, a)
    \/ \E a \in ThreadArgs : SetLogger("handler", a)
    \/ CfgReturn
    \/ ToggleFlag("handler")
    \/ \E t \in Threads, op \in Ops : \E arg \in CallArgs(op) :
           Enter(t, op, "handler", arg)
    \/ \E t \in Threads : Acquire(t)
    \/ \E t \in Threads : Body(t)
    \/ \E t \in Threads : Log(t)
    \/ \E t \in Threads : Release(t)
    \/ \E t \in Threads : Finish(t)

SpecThreads == Init /\ [][NextThreads]_vars

\* The constructor and set_logger under every combination of arguments.
NextCfg ==
    \/ Quiet /\ \E o \in Objs, a \in CfgArgs : Construct(o, FALSE, FALSE, a)
    \/ Quiet /\ \E o \in Objs, a \in CfgArgs : SetLogger(o, a)
    \/ CfgReturn

SpecCfg == Init /\ [][NextCfg]_vars

\* A LoggerGenerator driven directly.
NextGen ==
    \/ \E p \in {"test.log", "other.log", ""}, n \in {None, "testing"} :
           GenNew(p, n)
    \/ Quiet /\ \E l \in LevelStrings, f \in {None, "%(message)s"} :
           GenGenerate(l, f)
    \/ GenReturn

SpecGen == Init /\ [][NextGen]_vars

\* An object reconfigured in every way, successfully or not, by an owner who
\* also switches its lock, between the dispatch calls of one thread; a
\* second object is there to lend its logger.
NextSet ==
    \/ Quiet /\ \E a \in ThreadArgs : Construct("first", FALSE, FALSE, a)
    \/ Quiet /\ \E v \in BOOLEAN, a \in SetArgs :
           Construct("handler", v, ~v, a)
    \/ Quiet /\ \E a \in SetArgs : SetLogger("handler", a)
    \/ CfgReturn
    \/ ToggleFlag("handler")
    \/ \E op \in Ops : \E arg \in CallArgs(op) : Enter("t1", op, "handler", arg)
    \/ Acquire("t1")
    \/ Body("t1")
    \/ Log("t1")
    \/ Release("t1")
    \/ Finish("t1")

SpecSet == Init /\ [][NextSet]_vars

\* The timelines a script is run on: video track 1 empty or with one or two
\* clips, a start frame of zero or of one hour at 24 frames per second,
\* and up to MaxItems subtitle items in any order.
ClipNames == {<< >>, <<"a.mov">>, <<"b.mov", "a.mov">>}
StartFrames == {0, 86400}
Resolutions == {[width |-> 1920, height |-> 1080]}
DirPaths == {"", "labels"}
Items(start_frame) ==
    {[name |-> n, start |-> start_frame + s, end |-> start_frame + s + 12] :
         n \in {"cat", "dog"}, s \in {0, 24}}
Tracks(start_frame) ==
    UNION {[1..n -> Items(start_frame)] : n \in 0..MaxItems}

\* One run of one of the two scripts on one timeline.
InitScript ==
    /\ loggers = [n \in LoggerNames |-> Absent]
    /\ handlers = << >>
    /\ gen = NoGen
    /\ lastGen = NoCall
    /\ obj = [o \in Objs |-> Unconstructed]
    /\ lastCfg = NoCall
    /\ th = [t \in Threads |-> Idle]
    /\ \E script \in Scripts, dirpath \in DirPaths, video \in ClipNames,
          start_frame \in StartFrames, resolution \in Resolutions :
           \E subtitles \in Tracks(start_frame) :
               run = StartRun(script, dirpath, video, subtitles, start_frame,
                              resolution)

NextScript ==
    \/ ScriptSetup
    \/ ScriptHeader
    \/ ScriptRow
    \/ ScriptClose

SpecScript == InitScript /\ [][NextScript]_vars

\* SpecThreads under a fair scheduler: a thread whose next step is possible
\* again and again takes it, and a caller waiting for a result gets it.
SpecFair ==
    /\ Init
    /\ [][NextThreads]_vars
    /\ \A t \in Threads : SF_vars(Step(t))
    /\ WF_vars(CfgReturn)

(***************************************************************************)
(* The claims.                                                             *)
(***************************************************************************)
\* A call that has ended, by returning or by propagating an error.
Ended(t) == th[t].pc \in {"returned", "raised"}
\* A thread inside the body of a dispatch operation.
InBody(t) == th[t].pc \in {"body", "log"}

\* C1: with the thread-safety flag enabled, a call of _print, _warn or
\* _raise that has returned or has propagated an error no longer holds
\* logLock.
C1_LockReleasedOnEveryExit ==
    \A t \in Threads :
        th[t].locked /\ Ended(t) => obj[th[t].obj].log_lock # t

\* C2: under a fair scheduler every call that waits for logLock goes on to
\* complete, by returning or by propagating its error.
C2_EveryCallCompletes ==
    \A t \in Threads : (th[t].pc = "acquire") ~> Ended(t)

\* No two calls that locked are inside a body of the same object.
C3_Serialized ==
    \A t1, t2 \in Threads :
        ( /\ t1 # t2
          /\ th[t1].locked /\ th[t2].locked
          /\ InBody(t1) /\ InBody(t2) )
        => th[t1].obj # th[t2].obj

\* An object comes out of its constructor with the flag off.
C3_FlagDefaultsOff ==
    \A o \in Objs :
        ~obj[o].constructed /\ obj'[o].constructed
        => ~obj'[o].use_threaded_log_locks

\* The step is an acquisition of o's lock.
Acquires(o) == obj'[o].log_lock # obj[o].log_lock /\ obj'[o].log_lock # Free

\* C3 (as amended): the flag defaults to false; calls that read the flag as
\* enabled are never together inside a body of the same object; and logLock
\* is acquired only by a call that read the flag as enabled when it entered
\* (the flag may have been disabled since).
C3_LockSerializesBodies ==
    [][ /\ C3_Serialized'
        /\ C3_FlagDefaultsOff
        /\ \A o \in Objs :
               Acquires(o) => /\ th'[obj'[o].log_lock].locked
                              /\ th[obj'[o].log_lock].pc = "acquire" ]_vars

\* C3 (as stated): the flag defaults to false; calls that entered with the
\* flag enabled are never together inside a body; and while the flag is
\* disabled no dispatch operation acquires logLock.
C3_NoAcquireWhileDisabled ==
    [][ /\ C3_Serialized'
        /\ C3_FlagDefaultsOff
        /\ \A o \in Objs :
               ~obj[o].use_threaded_log_locks => ~Acquires(o) ]_vars

\* C3: one call that locked is inside the body while another that locked
\* waits for the lock.
C3_Witness ==
    \E t1, t2 \in Threads :
        /\ th[t1].locked /\ InBody(t1)
        /\ th[t2].locked /\ th[t2].pc = "acquire"
        /\ th[t1].obj = th[t2].obj

\* The threshold each level string of the model stands for, spelled out
\* string by string; InvalidLevel for the words that are no level.
ExpectedLevel(s) ==
    CASE s \in {NoneLevel, << >>, s_info, <<"I", "n", "f", "o">>} -> INFO
      [] s \in {s_debug, <<"D", "E", "B", "U", "G">>} -> DEBUG
      [] s \in {s_warning, <<"W", "A", "R", "N", "I", "N", "G">>} -> WARNING
      [] s \in {s_error, <<"E", "r", "r", "o", "r">>} -> ERROR
      [] s \in {s_critical, <<"C", "r", "i", "t", "i", "c", "a", "l">>,
                s_fatal, <<"F", "A", "T", "A", "L">>} -> CRITICAL
      [] OTHER -> InvalidLevel

\* Every line a call wrote is a line of that call: its severity, its
\* message, the logger it was handed to.
OwnLines(t) ==
    \A i \in 1..Len(th[t].wrote) :
        /\ th[t].wrote[i].level = Severity(th[t].op)
        /\ th[t].wrote[i].msg = th[t].arg
        /\ th[t].wrote[i].name = th[t].used

\* The call of thread t leaves the first half of its body with this step.
LeavesBody(t) == th[t].pc = "body" /\ th'[t].pc # "body"

\* C4 (as amended): _raise(e) never returns normally; it propagates e
\* itself, except that the AttributeError of its own log call propagates
\* when set_logger has removed the logger between the presence test and the
\* log call; a call that found a logger hands it the record before it
\* propagates, and an ERROR entry for e is then in the log if and only if
\* the threshold of that logger is at or below ERROR: a logger generated
\* at CRITICAL records nothing.
C4_RaiseLogsThenPropagates ==
    [][ \A t \in Threads :
          /\ LeavesBody(t) /\ th[t].op = "raise" /\ obj[th[t].obj].logger # None
             => th'[t].pc = "log"
          /\ th'[t].op = "raise" =>
               /\ th'[t].pc \notin {"release", "returned"}
               /\ th'[t].pc = "raised" =>
                    /\ \/ th'[t].outcome = th'[t].arg
                       \/ /\ th'[t].outcome = "AttributeError"
                          /\ th[t].pc = "log" \/ th[t].pc = "raised"
                          /\ th'[t].used = None
                    /\ OwnLines(t)'
                    /\ th'[t].used = None => th'[t].wrote = << >>
                    /\ th'[t].used # None =>
                         (th'[t].wrote # << >> <=> th'[t].threshold <= ERROR) ]_vars

\* C4 (as stated): _raise(e) never returns normally, propagates e and no
\* other error, and has written an ERROR entry for e when it propagates,
\* whenever a logger is present, whatever the logger's threshold.
C4_RaiseAlwaysLogs ==
    \A t \in Threads :
        th[t].op = "raise" =>
            /\ th[t].pc \notin {"release", "returned"}
            /\ th[t].pc = "raised" =>
                 /\ th[t].outcome = th[t].arg
                 /\ th[t].used # None =>
                      \E i \in 1..Len(th[t].wrote) :
                          /\ th[t].wrote[i].level = ERROR
                          /\ th[t].wrote[i].msg = th[t].arg

\* C4: a _raise has propagated its error with the ERROR entry written.
C4_Witness ==
    \E t \in Threads :
        /\ th[t].op = "raise" /\ th[t].pc = "raised"
        /\ th[t].outcome = th[t].arg
        /\ th[t].used # None /\ th[t].wrote # << >>

\* C8 (as amended): _print(m) writes the console line if and only if
\* verbose is set; it hands m to the logger if and only if a logger is
\* present, whatever verbose is; and a log line for m is written if and
\* only if the threshold of that logger is at or below INFO. A logger
\* generated at a higher level gets no line.
C8_PrintOutputs ==
    [][ \A t \in Threads :
          /\ LeavesBody(t) /\ th[t].op = "print" =>
               /\ th'[t].console = obj[th[t].obj].verbose
               /\ th'[t].pc = "log" <=> obj[th[t].obj].logger # None
          /\ th'[t].op = "print" /\ th'[t].pc = "returned" =>
               /\ th'[t].console = obj'[th'[t].obj].verbose
               /\ ~th'[t].warned
               /\ OwnLines(t)'
               /\ th'[t].used = None => th'[t].wrote = << >>
               /\ th'[t].used # None =>
                    (th'[t].wrote # << >> <=> th'[t].threshold <= INFO) ]_vars

\* C8 (as stated): _print(m) has written the console line exactly when
\* verbose is set and a log line exactly when a logger is present, for
\* every logger the object can hold.
C8_PrintAlwaysLogs ==
    \A t \in Threads :
        th[t].op = "print" /\ th[t].pc = "returned" =>
            /\ th[t].console = obj[th[t].obj].verbose
            /\ th[t].wrote # << >> <=> th[t].used # None

\* C8: a _print on a verbose object with a logger has written both lines.
C8_Witness ==
    \E t \in Threads :
        /\ th[t].op = "print" /\ th[t].pc = "returned"
        /\ th[t].console /\ th[t].wrote # << >>

\* C9 (as amended): _warn(m) raises the process warning if and only if
\* suppress_warnings is false; it hands m to the logger if and only if a
\* logger is present, whatever suppress_warnings is; and a WARNING line is
\* written if and only if the threshold of that logger is at or below
\* WARNING.
C9_WarnOutputs ==
    [][ \A t \in Threads :
          /\ LeavesBody(t) /\ th[t].op = "warn" =>
               /\ th'[t].warned = ~obj[th[t].obj].suppress_warnings
               /\ th'[t].pc = "log" <=> obj[th[t].obj].logger # None
          /\ th'[t].op = "warn" /\ th'[t].pc = "returned" =>
               /\ th'[t].warned = ~obj'[th'[t].obj].suppress_warnings
               /\ ~th'[t].console
               /\ OwnLines(t)'
               /\ th'[t].used = None => th'[t].wrote = << >>
               /\ th'[t].used # None =>
                    (th'[t].wrote # << >> <=> th'[t].threshold <= WARNING) ]_vars

\* C9 (as stated): _warn(m) has raised the process warning exactly when
\* suppress_warnings is false and has written a WARNING line whenever a
\* logger is present.
C9_WarnAlwaysLogs ==
    \A t \in Threads :
        th[t].op = "warn" /\ th[t].pc = "returned" =>
            /\ th[t].warned = ~obj[th[t].obj].suppress_warnings
            /\ th[t].used # None =>
                 \E i \in 1..Len(th[t].wrote) : th[t].wrote[i].level = WARNING

\* C9: a _warn with warnings suppressed has written its log line and raised
\* no warning.
C9_Witness ==
    \E t \in Threads :
        /\ th[t].op = "warn" /\ th[t].pc = "returned"
        /\ obj[th[t].obj].suppress_warnings /\ ~th[t].warned
        /\ th[t].wrote # << >>

\* A constructor or set_logger call has just ended.
CfgEnded == lastCfg # NoCall

\* The call that has just ended left the object's logger as it was: a failed
\* constructor leaves no object, a failed set_logger the previous reference.
LoggerUntouched ==
    IF lastCfg.op = "init"
    THEN ~obj[lastCfg.obj].constructed
    ELSE obj[lastCfg.obj].logger = lastCfg.before

\* At least one of the four initialization arguments carries a non-empty
\* value.
SomeNonEmpty(a) ==
    \/ a.log_filepath \notin {None, ""}
    \/ a.logger_name \notin {None, ""}
    \/ a.logger_level \notin {NoneLevel, << >>}
    \/ a.logger_format \notin {None, ""}

\* At least one of the four initialization arguments is provided.
SomeProvided(a) ==
    \/ a.log_filepath # None
    \/ a.logger_name # None
    \/ a.logger_level # NoneLevel
    \/ a.logger_format # None

\* C5 (as amended): construction and set_logger fail with the conflict
\* ValueError, and do not adopt the shared logger, whenever shared_logger is
\* given together with at least one non-empty value among log_filepath,
\* logger_name, logger_level and logger_format; arguments given as the
\* empty string count as absent, and the shared logger is then adopted.
C5_ConflictRejected ==
    CfgEnded /\ lastCfg.args.shared_logger # None =>
        IF SomeNonEmpty(lastCfg.args)
        THEN lastCfg.result = "ValueError:conflict" /\ LoggerUntouched
        ELSE /\ lastCfg.result = "ok"
             /\ obj[lastCfg.obj].constructed
             /\ obj[lastCfg.obj].logger = lastCfg.args.shared_logger

\* C5 (as stated): construction and set_logger fail with the conflict
\* ValueError, and do not adopt the shared logger, whenever shared_logger is
\* given together with any of the four arguments, whatever its value, the
\* empty string included.
C5_ConflictWhateverTheValue ==
    CfgEnded /\ lastCfg.args.shared_logger # None /\ SomeProvided(lastCfg.args)
        => lastCfg.result = "ValueError:conflict" /\ LoggerUntouched

\* C5: set_logger has refused a shared logger given together with a level
\* alone, on an object that holds another logger or none.
C5_Witness ==
    /\ CfgEnded
    /\ lastCfg.op = "set_logger"
    /\ lastCfg.args.shared_logger # None
    /\ lastCfg.args.log_filepath = None
    /\ lastCfg.args.logger_name = None
    /\ lastCfg.args.logger_format = None
    /\ lastCfg.args.logger_level # NoneLevel
    /\ lastCfg.result = "ValueError:conflict"
    /\ lastCfg.before # lastCfg.args.shared_logger

\* C6: generate resolves its level as the table says, whatever the case of
\* its letters, absent as INFO, and sets that threshold on the logger and
\* on the file handler; on a word that is no level it fails with ValueError
\* and leaves the logger (threshold and attached handlers) and the handler
\* as they were.
C6_GenerateAppliesLevel ==
    lastGen # NoCall =>
        LET level == ExpectedLevel(lastGen.level) IN
        IF level # InvalidLevel
        THEN /\ lastGen.result = "ok"
             /\ loggers[gen.logger].level = level
             /\ handlers[gen.handler].level = level
        ELSE /\ lastGen.result = "ValueError"
             /\ loggers[gen.logger] = lastGen.logger
             /\ handlers[gen.handler] = lastGen.handler

\* C6: generate("FATAL") has set CRITICAL on a logger and a handler that
\* carried another threshold.
C6_Witness ==
    /\ lastGen # NoCall
    /\ lastGen.level = <<"F", "A", "T", "A", "L">>
    /\ lastGen.result = "ok"
    /\ lastGen.logger.level \notin {NOTSET, CRITICAL}
    /\ loggers[gen.logger].level = CRITICAL
    /\ handlers[gen.handler].level = CRITICAL

\* C7 (as amended): without shared_logger, and with log_filepath given and
\* openable, a logger_level that is no level makes construction and
\* set_logger fail with the level ValueError, whatever logger_name and
\* logger_format are, and the object's logger stays as it was. With
\* log_filepath absent the level is not looked at and the call succeeds with
\* no logger; with a path that cannot be opened the I/O error comes first.
C7_InvalidLevelFails ==
    ( /\ CfgEnded
      /\ lastCfg.args.shared_logger = None
      /\ ExpectedLevel(lastCfg.args.logger_level) = InvalidLevel )
    => CASE lastCfg.args.log_filepath = None ->
                /\ lastCfg.result = "ok"
                /\ obj[lastCfg.obj].constructed
                /\ obj[lastCfg.obj].logger = None
         [] lastCfg.args.log_filepath = "" ->
                lastCfg.result = "OSError" /\ LoggerUntouched
         [] OTHER ->
                lastCfg.result = "ValueError:level" /\ LoggerUntouched

\* C7 (as stated): without shared_logger, a logger_level that is no level
\* makes construction and set_logger fail with the level ValueError,
\* whichever other arguments are given or absent.
C7_InvalidLevelAlwaysFails ==
    ( /\ CfgEnded
      /\ lastCfg.args.shared_logger = None
      /\ ExpectedLevel(lastCfg.args.logger_level) = InvalidLevel )
    => lastCfg.result = "ValueError:level"

\* C7: set_logger with test.log and a level that is no level has failed on
\* an object that holds a logger.
C7_Witness ==
    /\ CfgEnded
    /\ lastCfg.op = "set_logger"
    /\ lastCfg.args.shared_logger = None
    /\ lastCfg.args.log_filepath = "test.log"
    /\ lastCfg.args.logger_level = <<"v", "e", "r", "b", "o", "s", "e">>
    /\ lastCfg.result = "ValueError:level"
    /\ lastCfg.before # None

\* The files behind a logger.
Destinations(name) ==
    {handlers[loggers[name].handlers[i]].file :
         i \in 1..Len(loggers[name].handlers)}

\* C10: a shared logger is adopted by reference. The object holds the very
\* logger it was given; a threshold set by generating a logger of the same
\* name again, through whichever object, is the threshold of every object
\* that holds that logger; and whatever an object logs goes to the files of
\* the registered logger it holds.
C10_SharedByReference ==
    /\ ( CfgEnded /\ lastCfg.result = "ok"
         /\ lastCfg.args.shared_logger # None )
       => obj[lastCfg.obj].logger = lastCfg.args.shared_logger
    /\ ( CfgEnded /\ lastCfg.result = "ok"
         /\ lastCfg.args.shared_logger = None
         /\ lastCfg.args.log_filepath # None )
       => \A o \in Objs :
              obj[o].logger = obj[lastCfg.obj].logger =>
                  EffectiveLevel(loggers[obj[o].logger]) =
                      ExpectedLevel(lastCfg.args.logger_level)
    /\ \A t \in Threads :
           th[t].used # None =>
               \A i \in 1..Len(th[t].wrote) :
                   th[t].wrote[i].file \in Destinations(th[t].used)

\* C10: "handler" was given the logger of "first" and still holds it, the
\* two differ in verbose, and "first" has just generated that logger again
\* at CRITICAL, which is now the threshold "handler" logs under.
C10_Witness ==
    /\ CfgEnded /\ lastCfg.op = "set_logger" /\ lastCfg.obj = "first"
    /\ lastCfg.result = "ok"
    /\ lastCfg.args.logger_level = <<"F", "A", "T", "A", "L">>
    /\ obj["handler"].constructed
    /\ obj["handler"].logger = obj["first"].logger
    /\ obj["handler"].verbose # obj["first"].verbose
    /\ Len(handlers) = 2 /\ handlers[1].level = INFO
    /\ EffectiveLevel(loggers[obj["handler"].logger]) = CRITICAL

\* The generate call that has just ended found its generator's handler
\* already attached to the logger.
AlreadyAttached == gen.handler \in Range(lastGen.logger.handlers)

\* C11 (as amended): generate attaches the FileHandler its LoggerGenerator
\* created at construction. A successful call leaves that handler attached
\* and adds exactly one handler to the logger when it was not attached yet,
\* none when it was (a repeated call on the same LoggerGenerator); the
\* handlers attached before stay, in their order, whatever their file; a
\* call that fails on its level attaches nothing.
C11_GenerateAttachesOwnHandlerOnce ==
    lastGen # NoCall =>
        LET before == lastGen.logger.handlers
            after == loggers[gen.logger].handlers
        IN  IF lastGen.result = "ok"
            THEN /\ gen.handler \in Range(after)
                 /\ after = IF AlreadyAttached THEN before
                            ELSE Append(before, gen.handler)
            ELSE after = before

\* C11 (as stated): every generate call, a repeated call on the same
\* LoggerGenerator included, increases the number of handlers attached to
\* the named logger by exactly one (taken for the calls that succeed).
C11_EveryGenerateAddsOne ==
    lastGen # NoCall /\ lastGen.result = "ok" =>
        Len(loggers[gen.logger].handlers) = Len(lastGen.logger.handlers) + 1

\* C11: a second LoggerGenerator of the same name and file has generated and
\* the logger now carries two handlers on that one file.
C11_Witness ==
    /\ lastGen # NoCall /\ lastGen.result = "ok"
    /\ ~AlreadyAttached
    /\ Len(lastGen.logger.handlers) = 1
    /\ Len(loggers[gen.logger].handlers) = 2
    /\ handlers[loggers[gen.logger].handlers[1]].file
           = handlers[loggers[gen.logger].handlers[2]].file

\* C12: every FileHandler attached to a logger carries the threshold of
\* that logger.
C12_HandlerThresholdIsLoggers ==
    \A n \in LoggerNames :
        \A i \in 1..Len(loggers[n].handlers) :
            handlers[loggers[n].handlers[i]].level = loggers[n].level

\* C13: a _print or _warn call that found a logger whose threshold admits
\* its message has appended exactly one line for it.
C13_OneLinePerMessage ==
    \A t \in Threads :
        ( /\ th[t].pc = "returned"
          /\ th[t].used # None
          /\ Passes(Severity(th[t].op), th[t].threshold) )
        => Len(th[t].wrote) = 1

\* C14: a dispatch call that runs while set_logger replaces the logger ends
\* by returning, or by raising the error its caller passed to _raise.
C14_OnlyTheCallersError ==
    \A t \in Threads :
        th[t].pc = "raised" => th[t].op = "raise" /\ th[t].outcome = th[t].arg

\* The name of the logger a generator resolves for logger_name.
ResolvedName(a) ==
    IF a.logger_name \in {None, ""} THEN DefaultLoggerName ELSE a.logger_name

\* The format a generated handler carries for logger_format.
ResolvedFormat(a) ==
    IF a.logger_format \in {None, ""} THEN DefaultFormat ELSE a.logger_format

\* The logger reference a successful resolution of the arguments yields.
ResolvedLogger(a) ==
    IF a.shared_logger # None THEN a.shared_logger
    ELSE IF a.log_filepath # None THEN ResolvedName(a)
    ELSE None

\* The constructor or set_logger call that has just ended succeeded and
\* left the logger its arguments resolve to: the shared logger; or the
\* logger of the given name ("messagehandler" without one) at the given
\* level, with a new handler on log_filepath at that level and with the
\* given format attached last; or none.
Resolved ==
    CfgEnded /\ lastCfg.result = "ok" =>
        LET a == lastCfg.args
            name == obj[lastCfg.obj].logger
        IN  /\ obj[lastCfg.obj].constructed
            /\ name = ResolvedLogger(a)
            /\ ( a.shared_logger = None /\ a.log_filepath # None ) =>
                   LET l == loggers[name] IN
                   /\ l.exists
                   /\ l.level = ExpectedLevel(a.logger_level)
                   /\ Len(l.handlers) > 0
                   /\ l.handlers[Len(l.handlers)] = Len(handlers)
                   /\ handlers[Len(handlers)] =
                          [level |-> ExpectedLevel(a.logger_level),
                           file |-> a.log_filepath, fmt |-> ResolvedFormat(a)]

\* A call without shared_logger and without log_filepath always succeeds.
ResolvedToAbsence ==
    ( /\ CfgEnded
      /\ lastCfg.args.shared_logger = None
      /\ lastCfg.args.log_filepath = None )
    => lastCfg.result = "ok" /\ obj[lastCfg.obj].logger = None

\* C15: logger resolution in construction and set_logger. A call that
\* succeeds leaves as the active logger the shared_logger when one is given;
\* otherwise, when log_filepath is present, the logger generated from
\* (log_filepath, logger_name) with generate(logger_level, logger_format),
\* named "messagehandler" when logger_name is absent; otherwise no logger,
\* and a _print on an object without a logger writes nothing to any log.
C15_LoggerResolution ==
    [][ /\ Resolved'
        /\ ResolvedToAbsence'
        /\ \A t \in Threads :
               ( /\ LeavesBody(t)
                 /\ th[t].op = "print"
                 /\ obj[th[t].obj].logger = None )
               => /\ th'[t].pc \in {"returned", "release"}
                  /\ th'[t].used = None
                  /\ th'[t].wrote = << >> ]_vars

\* C15: set_logger with other.log, an empty name, "Error" and a format has
\* replaced the logger "testing" of an object by "messagehandler".
C15_Witness ==
    /\ CfgEnded /\ lastCfg.op = "set_logger" /\ lastCfg.result = "ok"
    /\ lastCfg.args.log_filepath = "other.log"
    /\ lastCfg.args.shared_logger = None
    /\ lastCfg.before = "testing"
    /\ obj[lastCfg.obj].logger = DefaultLoggerName
    /\ loggers[DefaultLoggerName].level = ERROR

\* A set_logger call ends in this step.
SetLoggerEnds == lastCfg = NoCall /\ lastCfg' # NoCall /\ lastCfg'.op = "set_logger"

\* C16: set_logger replaces the logger reference in one step and only on
\* success. A set_logger that fails, whatever the failure, leaves the
\* object (logger, verbose, suppress_warnings, flag, lock) and every
\* logger's threshold and handlers as they were; one that succeeds changes
\* the logger reference alone, to what its arguments resolve to; no other
\* step changes a logger reference; and a dispatch call tests and uses the
\* reference the object holds at that time.
C16_SetLoggerOnlyOnSuccess ==
    [][ /\ SetLoggerEnds =>
               IF lastCfg'.result = "ok"
               THEN obj' = [obj EXCEPT ![lastCfg'.obj].logger =
                                           ResolvedLogger(lastCfg'.args)]
               ELSE /\ obj' = obj
                    /\ handlers' = handlers
                    /\ \A n \in LoggerNames :
                           /\ loggers'[n].level = loggers[n].level
                           /\ loggers'[n].handlers = loggers[n].handlers
        /\ \A o \in Objs :
               ( obj[o].constructed /\ obj'[o].logger # obj[o].logger )
               => SetLoggerEnds /\ lastCfg'.obj = o /\ lastCfg'.result = "ok"
        /\ \A t \in Threads :
               /\ LeavesBody(t) =>
                      ( th'[t].pc = "log" <=> obj[th[t].obj].logger # None )
               /\ ( /\ th[t].pc = "log" /\ th'[t].pc # "log"
                    /\ obj[th[t].obj].logger # None )
                  => th'[t].used = obj[th[t].obj].logger ]_vars

\* C16: set_logger has failed on a path that cannot be opened, on an object
\* with a logger, verbose and with an enabled lock, which all stay.
C16_Witness ==
    /\ CfgEnded /\ lastCfg.op = "set_logger" /\ lastCfg.result = "OSError"
    /\ lastCfg.before = "testing"
    /\ obj[lastCfg.obj].logger = "testing"
    /\ obj[lastCfg.obj].verbose
    /\ obj[lastCfg.obj].use_threaded_log_locks

\* C17: a dispatch call decides once, at entry, whether it locks. The
\* decision is the flag as read at entry and stays through the call; only a
\* call that decided to lock changes logLock, by acquiring it when free or
\* by releasing it as its holder when it returns; and a call returns
\* normally with a release of the lock it holds exactly when it decided to
\* lock, whatever the flag is by then.
C17_LockDecidedAtEntry ==
    [][ \A t \in Threads :
          LET o == IF th[t].pc = "idle" THEN th'[t].obj ELSE th[t].obj IN
          th'[t] # th[t] =>
            /\ th[t].pc = "idle" =>
                   /\ th'[t].locked = obj[o].use_threaded_log_locks
                   /\ obj' = obj
            /\ ( th[t].pc # "idle" /\ th'[t].pc # "idle" ) =>
                   th'[t].locked = th[t].locked
            /\ obj' # obj =>
                   /\ th[t].locked
                   /\ \/ /\ th[t].pc = "acquire"
                         /\ obj[o].log_lock = Free /\ obj'[o].log_lock = t
                      \/ /\ th'[t].pc = "returned"
                         /\ obj[o].log_lock = t /\ obj'[o].log_lock = Free
            /\ th'[t].pc = "returned" =>
                   ( th[t].locked <=>
                         obj[o].log_lock = t /\ obj'[o].log_lock = Free ) ]_vars

\* C17: a call that entered with the flag enabled has returned and released
\* the lock although the flag was disabled while it ran.
C17_Witness ==
    \E t \in Threads :
        /\ th[t].pc = "returned"
        /\ th[t].locked
        /\ ~obj[th[t].obj].use_threaded_log_locks
        /\ obj[th[t].obj].log_lock = Free

\* The row the file must carry for the k-th item of the subtitle track.
ExpectedRow(k) ==
    LET item == run.subtitles[k]
        start == item.start - run.start_frame
        end == item.end - run.start_frame
        columns == <<run.video[1], item.name, start, end, end - start>>
    IN  IF run.script = "Utility"
        THEN Append(columns, <<run.resolution.width, run.resolution.height>>)
        ELSE columns

\* C18: after the header row the file carries exactly one row per item of
\* the subtitle track, in the track's order: while the script writes, the
\* rows written are those of the first items; when it is done, of all of
\* them. In each row start and end are the item's frames minus the
\* timeline's start frame, duration is end minus start, and the file column
\* is the name of the first item of video track 1.
C18_OneRowPerSubtitle ==
    run.pc \in {"rows", "done"} =>
        /\ Len(run.csv) = run.i
        /\ run.csv[1] = Header(run.script)
        /\ \A k \in 1..(Len(run.csv) - 1) : run.csv[k + 1] = ExpectedRow(k)
        /\ run.pc = "done" => Len(run.csv) = Len(run.subtitles) + 1

\* C18: the Utility script is done with a timeline that starts at one hour,
\* has two clips on video track 1 and two different subtitle items, the
\* later one first.
C18_Witness ==
    /\ run.pc = "done"
    /\ run.script = "Utility"
    /\ run.start_frame = 86400
    /\ Len(run.video) = 2
    /\ Len(run.subtitles) = 2
    /\ run.subtitles[1].start > run.subtitles[2].start
    /\ run.subtitles[1].name # run.subtitles[2].name
    /\ Len(run.csv) = 3

====
